---- MODULE Spec2Model ----
(***************************************************************************)
(* State-machine model of iscat_lib/analysis.py and iscat_lib/analysis/    *)
(* _sd.py: squared displacements, the MSD curve (sequential and parallel   *)
(* path), the fit-point selection and BIC model comparison of the three    *)
(* analysis entry points, smartAveraging, and the SD analysis results kept *)
(* on a track.                                                             *)
(*                                                                         *)
(* Number representation.  Coordinates are integers.  A mean is kept as    *)
(* the exact fraction <<sum, count>>.  A standard error std/sqrt(n) is     *)
(* kept as its square, the exact fraction <<n*sumsq - sum^2, n^3>>.        *)
(* numpy arrays are sequences; numpy's 0-based index k is element k+1.     *)
(***************************************************************************)
EXTENDS Integers, Sequences, FiniteSets, TLC

\* Python values that are not plain numbers or arrays
None == [tag |-> "None"]
Some(v) == [tag |-> "value", val |-> v]
Raise(e) == [tag |-> "raise", exc |-> e]
IsValue(r) == r.tag = "value"
IsRaise(r) == r.tag = "raise"

\* ---------------------------------------------------------------- bounds
MaxLen == 5
MaxChunk == 2
MaxWorkers == 2
MaxCurve == 6
MaxRSS == 2
MaxTracks == 2
\* the moves a track makes from one frame to the next: (dx, dy)
Steps == {<<0, 0>>, <<1, 0>>, <<0, 2>>}

\* ------------------------------------------------------- numpy primitives
Rat(n, d) == <<n, d>>

\* np.arange(a, b, 1)
Arange(a, b) == [k \in 1..(IF b > a THEN b - a ELSE 0) |-> a + k - 1]

\* np.zeros((n,)), for n >= 0
Zeros(n) == [k \in 1..n |-> Rat(0, 1)]

\* a[k] for a 0-based index k (a negative k counts from the end)
At(a, k) == IF k >= 0 THEN a[k + 1] ELSE a[Len(a) + k + 1]

\* whether every index of idx is one a[...] accepts
InBounds(a, idx) == \A k \in 1..Len(idx) : idx[k] < Len(a) /\ idx[k] >= -Len(a)

\* the sum of the first n entries of v, and of their squares
RECURSIVE SumTo(_, _)
SumTo(v, n) == IF n = 0 THEN 0 ELSE v[n] + SumTo(v, n - 1)

RECURSIVE SumSqTo(_, _)
SumSqTo(v, n) == IF n = 0 THEN 0 ELSE v[n] * v[n] + SumSqTo(v, n - 1)

Sum(v) == SumTo(v, Len(v))
SumSq(v) == SumSqTo(v, Len(v))

\* np.mean(v)
Mean(v) == Rat(Sum(v), Len(v))

\* np.std(v) / np.sqrt(len(v)), squared
StdErr(v) ==
    LET n == Len(v)
        sm == Sum(v)
    IN  Rat(n * SumSq(v) - sm * sm, n * n * n)

\* (pos_x[idx_t] - pos_x[idx_0])**2 + (pos_y[idx_t] - pos_y[idx_0])**2
SqDispNoY(pos_x, pos_y, idx_0, idx_t) ==
    [k \in 1..Len(idx_0) |->
        (At(pos_x, idx_t[k]) - At(pos_x, idx_0[k])) * (At(pos_x, idx_t[k]) - At(pos_x, idx_0[k]))]

SqDisp(pos_x, pos_y, idx_0, idx_t) ==
    [k \in 1..Len(idx_0) |->
        (At(pos_x, idx_t[k]) - At(pos_x, idx_0[k])) * (At(pos_x, idx_t[k]) - At(pos_x, idx_0[k]))
      + (At(pos_y, idx_t[k]) - At(pos_y, idx_0[k])) * (At(pos_y, idx_t[k]) - At(pos_y, idx_0[k]))]

\* ndarray.sort(): ascending, by insertion
RECURSIVE Insert(_, _)
Insert(e, s) ==
    IF Len(s) = 0 THEN <<e>>
    ELSE IF e <= Head(s) THEN <<e>> \o s
    ELSE <<Head(s)>> \o Insert(e, Tail(s))

RECURSIVE SortAsc(_)
SortAsc(v) == IF Len(v) = 0 THEN << >> ELSE Insert(Head(v), SortAsc(Tail(v)))

IsSortedAsc(v) == \A k \in 1..(Len(v) - 1) : v[k] <= v[k + 1]

\* ------------------------------------------------ squared displacements
\* Track.SD(j) and _calculate_sd_at(j): the same code in both files.
SD_NoSort(pos_x, pos_y, j) ==
    LET length_array == Len(pos_x)
        idx_0 == Arange(0, length_array - j - 1)
        idx_t == [k \in 1..Len(idx_0) |-> idx_0[k] + j]
    IN  IF ~InBounds(pos_x, idx_t) \/ ~InBounds(pos_y, idx_t) THEN Raise("IndexError")
        ELSE Some(SqDisp(pos_x, pos_y, idx_0, idx_t))

SD(pos_x, pos_y, j) ==
    LET length_array == Len(pos_x)
        idx_0 == Arange(0, length_array - j - 1)
        idx_t == [k \in 1..Len(idx_0) |-> idx_0[k] + j]
    IN  IF ~InBounds(pos_x, idx_t) \/ ~InBounds(pos_y, idx_t) THEN Raise("IndexError")
        ELSE Some(SortAsc(SqDisp(pos_x, pos_y, idx_0, idx_t)))

\* ------------------------------------------------------------ MSD per lag
\* MSD_loop(i, pos_x, pos_y, N): one lag of the parallel map.
MSD_loop_NoY(i, pos_x, pos_y, N) ==
    LET idx_0 == Arange(1, N - i - 1)
        idx_t == [k \in 1..Len(idx_0) |-> idx_0[k] + i]
    IN  IF ~InBounds(pos_x, idx_t) \/ ~InBounds(pos_y, idx_t) THEN Raise("IndexError")
        ELSE LET this_msd == SqDispNoY(pos_x, pos_y, idx_0, idx_t)
             IN  Some(<<Mean(this_msd), StdErr(this_msd)>>)

MSD_loop(i, pos_x, pos_y, N) ==
    LET idx_0 == Arange(1, N - i - 1)
        idx_t == [k \in 1..Len(idx_0) |-> idx_0[k] + i]
    IN  IF ~InBounds(pos_x, idx_t) \/ ~InBounds(pos_y, idx_t) THEN Raise("IndexError")
        ELSE LET this_msd == SqDisp(pos_x, pos_y, idx_0, idx_t)
             IN  Some(<<Mean(this_msd), StdErr(this_msd)>>)

\* The body of the sequential loop of calculateMSD for lag i.
SeqLag(i, pos_x, pos_y, N) ==
    LET idx_0 == Arange(1, N - i - 1)
        idx_t == [k \in 1..Len(idx_0) |-> idx_0[k] + i]
    IN  IF ~InBounds(pos_x, idx_t) \/ ~InBounds(pos_y, idx_t) THEN Raise("IndexError")
        ELSE LET this_msd == SqDisp(pos_x, pos_y, idx_0, idx_t)
             IN  Some(<<Mean(this_msd), StdErr(this_msd)>>)

\* range(1, N-2): the lags of the curve
Lags(N) == Arange(1, N - 2)

\* the lengths of the arrays np.zeros((N-3,)) allocates
CurveLen_OffByOne(N) == N - 2

CurveLen(N) == N - 3

\* executor.map(..., chunksize=chunksize): the lags are cut into consecutive
\* chunks; chunk c (from 0) holds these positions of Lags(N)
NumChunks(N, cs) == (Len(Lags(N)) + cs - 1) \div cs

ChunkPositions(c, N, cs) ==
    {p \in 1..Len(Lags(N)) : (p - 1) \div cs = c}

\* what the worker that runs chunk c returns: one result per lag, in order,
\* or the exception a lag raised.  calculateMSD passes pos_y before pos_x.
ChunkResult(c, pos_x, pos_y, N, cs) ==
    LET ps == ChunkPositions(c, N, cs)
        lo == CHOOSE p \in ps : \A q \in ps : p <= q
        rs == [k \in 1..Cardinality(ps) |-> MSD_loop(Lags(N)[lo + k - 1], pos_y, pos_x, N)]
    IN  IF \E k \in 1..Len(rs) : IsRaise(rs[k]) THEN Raise("IndexError")
        ELSE Some([k \in 1..Len(rs) |-> rs[k].val])

\* chaining the chunk results in submission order
RECURSIVE ChainChunks(_, _, _)
ChainChunks(res, c, n) ==
    IF c >= n THEN << >> ELSE res[c].val \o ChainChunks(res, c + 1, n)

\* ------------------------------------------------- fit-point selection
\* int(v) for the fraction v = <<num, den>>, den > 0: truncation towards zero
IntTrunc(v) ==
    IF v[1] >= 0 THEN v[1] \div v[2] ELSE -((-v[1]) \div v[2])

Times(v, n) == <<v[1] * n, v[2]>>

\* classicalMSDAnalysis (both): int(fractionFitPoints * N) or int(nFitPoints)
NPointsMSD(frac, nfit, n) ==
    IF nfit = None THEN IntTrunc(Times(frac, n)) ELSE IntTrunc(nfit.val)

\* adc_analysis: int(0.25 * N) or int(nFitPoints * N)
NPointsADC(nfit, n) ==
    IF nfit = None THEN IntTrunc(Times(<<1, 4>>, n)) ELSE IntTrunc(Times(nfit.val, n))

\* assert n_points >= 2
EnoughPoints_AtLeastOne(n_pts) == n_pts >= 1

EnoughPoints(n_pts) == n_pts >= 2

\* n_points > int(0.25 * N): the warning
TooManyPoints(n_pts, n) == n_pts > IntTrunc(Times(<<1, 4>>, n))

\* len(a[0:n_pts]) for an array of n entries and n_pts >= 0
SliceLen(n, n_pts) == IF n_pts < n THEN n_pts ELSE n

\* the models each entry point fits, in the order it fits them
ModelsOf(e) ==
    IF e = "adc_analysis" THEN <<"brownian", "confined", "hop">>
    ELSE <<"model1", "model2">>

\* the number of parameters of each model function
NumParams(m) ==
    CASE m = "brownian" -> 2
      [] m = "confined" -> 3
      [] m = "hop" -> 4
      [] m = "model1" -> 2
      [] m = "model2" -> 3

\* the argument k each entry point passes to BIC for a model
BicK(e, m) == IF e = "adc_analysis" THEN NumParams(m) ELSE 2

\* ----------------------------------------------------------------- BIC
\* A BIC value b is kept as exp(b), an exact fraction: 0 stands for -inf.
\* BIC(pred, target, k, n) with RSS = np.sum((pred - target) ** 2):
\* exp(k * log(n) + n * log(RSS / n)) = n^k * RSS^n / n^n
RECURSIVE Pow(_, _)
Pow(b, e) == IF e = 0 THEN 1 ELSE b * Pow(b, e - 1)

BIC(RSS, k, n) == Rat(Pow(n, k) * Pow(RSS, n), Pow(n, n))

RatLess(a, b) == a[1] * b[2] < b[1] * a[2]
RatEq(a, b) == a[1] * b[2] = b[1] * a[2]

\* min([...]) of Python: the first of the smallest elements
RECURSIVE MinOf(_)
MinOf_First(bs) == bs[1]

MinOf(bs) ==
    IF Len(bs) = 1 THEN bs[1]
    ELSE LET m == MinOf(SubSeq(bs, 1, Len(bs) - 1))
         IN  IF RatLess(bs[Len(bs)], m) THEN bs[Len(bs)] ELSE m

\* np.exp((bic - bic_min) * 0.5), kept as its square exp(bic) / exp(bic_min);
\* -inf - -inf is nan, and a finite value minus -inf is inf
RelLikelihood(bic, bic_min) ==
    IF bic_min[1] = 0
    THEN IF bic[1] = 0 THEN [kind |-> "nan"] ELSE [kind |-> "inf"]
    ELSE [kind |-> "finite", sq |-> Rat(bic[1] * bic_min[2], bic[2] * bic_min[1])]

\* lines 375-382: the if-chain that names the category
Category_HopFirst(bs, bic_min) ==
    IF RatEq(bic_min, bs[3]) THEN "hop"
    ELSE IF RatEq(bic_min, bs[2]) THEN "confined"
    ELSE IF RatEq(bic_min, bs[1]) THEN "brownian"
    ELSE "unknown"

Category(bs, bic_min) ==
    IF RatEq(bic_min, bs[1]) THEN "brownian"
    ELSE IF RatEq(bic_min, bs[2]) THEN "confined"
    ELSE IF RatEq(bic_min, bs[3]) THEN "hop"
    ELSE "unknown"

\* the values given to fractionFitPoints and nFitPoints
FitArgs == {<<1, 4>>, <<3, 4>>, <<3, 2>>, <<3, 1>>}

\* (fractionFitPoints, nFitPoints) of a call: one is given, the other is left
\* at its default
FitArgPairs(e) ==
    IF e = "adc_analysis"
    THEN {<<<<1, 4>>, nf>> : nf \in {None} \cup {Some(v) : v \in FitArgs}}
    ELSE {<<fr, None>> : fr \in FitArgs} \cup {<<<<1, 4>>, Some(v)>> : v \in FitArgs}

EntryPoints == {"Track.classicalMSDAnalysis", "classicalMSDAnalysis", "adc_analysis"}

\* ------------------------------------------------------- smartAveraging
Categories == <<"brownian", "confined", "hop">>

\* element-wise a += b
AddTo(a, b) == [j \in 1..Len(a) |-> a[j] + b[j]]

\* element-wise a /= c for an int c: 0/0 is nan, v/0 is inf (numpy warns)
DivideBy_OneMore(a, c) ==
    [j \in 1..Len(a) |->
        IF c # 0 THEN [kind |-> "finite", q |-> Rat(a[j], c + 1)]
        ELSE IF a[j] = 0 THEN [kind |-> "nan"] ELSE [kind |-> "inf"]]

DivideBy(a, c) ==
    [j \in 1..Len(a) |->
        IF c # 0 THEN [kind |-> "finite", q |-> Rat(a[j], c)]
        ELSE IF a[j] = 0 THEN [kind |-> "nan"] ELSE [kind |-> "inf"]]

\* lines 426-433: the first of the three length checks that fails
LengthCheck_NoDapp(ls) ==
    IF ls.tracks # ls.models THEN "ValueError"
    ELSE IF ls.tracks # ls.MSD THEN "ValueError"
    ELSE "None"

LengthCheck(ls) ==
    IF ls.tracks # ls.models THEN "ValueError"
    ELSE IF ls.tracks # ls.MSD THEN "ValueError"
    ELSE IF ls.tracks # ls.D_app THEN "ValueError"
    ELSE "None"

\* the curves a track's MSD[k][0] and D_app[k] may hold, of a given length
CurvesOf(n) == {[j \in 1..n |-> 1], [j \in 1..n |-> j + 1]}

\* ------------------------------------------------- the SD analysis results
\* d[k] = v on a dict
DictSet(d, k, v) == [q \in DOMAIN d \cup {k} |-> IF q = k THEN v ELSE d[q]]

\* the dict delete_sd_analysis_results stores
ResetRecord_StillAnalyzed ==
    [q \in {"analyzed", "model", "Dapp", "results"} |->
        CASE q = "analyzed" -> TRUE
          [] q = "model" -> "unknown"
          [] q = "Dapp" -> None
          [] q = "results" -> None]

ResetRecord ==
    [q \in {"analyzed", "model", "Dapp", "results"} |->
        CASE q = "analyzed" -> FALSE
          [] q = "model" -> "unknown"
          [] q = "Dapp" -> None
          [] q = "results" -> None]

\* the dict a track is constructed with
InitialRecord ==
    [q \in {"analyzed", "model", "Dapp", "results"} |->
        CASE q = "analyzed" -> FALSE
          [] q = "model" -> "unknown"
          [] q = "Dapp" -> None
          [] q = "results" -> None]

\* the lists given to J
JLists == {<< >>, <<1>>, <<1, 2>>, <<2, 1>>, <<1, MaxLen>>}

\* the values a Rayleigh fit gives dapp
DappValues == {1, 2}

\* what _categorize returns: the category and the results of the fits
CategorizeResults ==
    {<<m, [models |-> IF m = "unknown" THEN << >> ELSE <<m>>]>> :
        m \in {"brownian", "confined", "hop", "unknown"}}

\* ------------------------------------------------------------------ state
VARIABLES
    x, y,               \* Track._x, Track._y
    Narg,               \* the argument N of the calculateMSD calls (None: default)
    self_MSD,           \* Track._MSD
    self_MSD_error,     \* Track._MSD_error
    pc,                 \* position in calculateMSD: idle, seq, par, collected
    N, i,               \* calculateMSD's locals N and i (0 outside a call)
    MSD, MSD_error,     \* calculateMSD's local arrays (empty outside a call)
    chunksize,          \* the argument chunksize of the running parallel call
    chunkRes,           \* parallel path: chunk -> its result, None while it runs
    err,                \* the exception the last call ended with, or "None"
    seqCurve, parCurve, \* the curve last published by each path
    sdJ, sdRet,         \* the last SD(j) call: its lag and what it returned
    entry,              \* the analysis entry point running or last run, or "none"
    fractionFitPoints,  \* its argument fractionFitPoints
    nFitPoints,         \* its argument nFitPoints (None: not given)
    n_tracks, k_track,  \* the number of curves it loops over, the one it is at
    apc,                \* its position: idle, points, fit, bic, plot, done, failed
    curveN,             \* its local N, the length of the current curve
    n_points,           \* its local n_points
    warned,             \* whether the too-many-points warning was given for this curve
    fitRSS,             \* the fits made for this curve: RSS over the fitted prefix
    fitStarted,         \* every curve_fit call of this run: curve, model, points
    bicCalls,           \* the BIC calls made for this curve: model, k, n, len(pred)
    bics,               \* the BIC of each model of this curve
    bic_min,            \* min([...]) of them
    rel_likelihood,     \* the relative likelihood of each model of this curve
    model_list,         \* adc_analysis: the categories appended so far
    aErr,               \* the exception that ended the run, or "None"
    lens,               \* smartAveraging: len(tracks), len(MSD), len(D_app), len(models)
    spc,                \* its position: idle, validate, accumulate, divide, returned, failed
    track_length,       \* its local track_length
    sk,                 \* its loop variable k
    counter,            \* counter_brownian, counter_confined, counter_hop
    average_D_app,      \* average_D_app_brownian, _confined, _hop
    average_MSD,        \* average_MSD_brownian, _confined, _hop
    sector,             \* sector_brownian_area, _confined_area, _hop_area
    divisors,           \* the divisor of every division made so far
    sErr,               \* the exception that ended the call, or "None"
    sa_models,          \* the elements of its argument models read so far
    sa_D_app, sa_MSD,   \* D_app[k] and MSD[k][0] for the same k (None: not read)
    sd_analysis_results,\* Track._sd_analysis_results: a dict, key -> value
    sdaPc,              \* position in sd_analysis: idle, loop
    J, dapp_list,       \* sd_analysis's argument J and local dapp_list
    sdaCall, sdaRet,    \* the last call on the results and what it returned
    lastAnalysis        \* what the last completed sd_analysis since the last
                        \* delete computed (None: there is none)

msdVars == <<Narg, self_MSD, self_MSD_error, pc, N, i, MSD, MSD_error,
             chunksize, chunkRes, err, seqCurve, parCurve>>
sdVars == <<sdJ, sdRet>>
fitVars == <<entry, fractionFitPoints, nFitPoints, n_tracks, k_track, apc, curveN,
             n_points, warned, fitRSS, fitStarted, bicCalls, bics, bic_min,
             rel_likelihood, model_list, aErr>>
avgVars == <<lens, spc, track_length, sk, counter, average_D_app, average_MSD,
             sector, divisors, sErr, sa_models, sa_D_app, sa_MSD>>
sdaVars == <<sd_analysis_results, sdaPc, J, dapp_list, sdaCall, sdaRet, lastAnalysis>>
vars == <<x, y, msdVars, sdVars, fitVars, avgVars, sdaVars>>

\* the positions of a walk that starts at the origin and makes the moves st
RECURSIVE Walk(_, _)
Walk(st, axis) ==
    IF Len(st) = 0 THEN <<0>>
    ELSE LET w == Walk(SubSeq(st, 1, Len(st) - 1), axis)
         IN  Append(w, w[Len(w)] + st[Len(st)][axis])

\* the tracks considered: every walk of 1..MaxLen positions
Tracks ==
    UNION {{<<Walk(st, 1), Walk(st, 2)>> : st \in [1..(n - 1) -> Steps]} : n \in 1..MaxLen}

\* Track.__init__(x, y, t)
InitTrack == \E t \in Tracks : x = t[1] /\ y = t[2]

\* Track.__init__ : no curve yet, no call running
MsdIdle ==
    /\ self_MSD = None /\ self_MSD_error = None
    /\ pc = "idle" /\ N = 0 /\ i = 0
    /\ MSD = << >> /\ MSD_error = << >>
    /\ chunksize = 0 /\ chunkRes = << >>
    /\ err = "None" /\ seqCurve = None /\ parCurve = None

SdIdle == sdJ = 0 /\ sdRet = None

\* a new track: nothing analysed, no call made
SdaIdle ==
    /\ sd_analysis_results = InitialRecord
    /\ sdaPc = "idle" /\ J = << >> /\ dapp_list = << >>
    /\ sdaCall = "none" /\ sdaRet = None
    /\ lastAnalysis = None

\* no analysis has been called
FitIdle ==
    /\ entry = "none" /\ fractionFitPoints = <<1, 4>> /\ nFitPoints = None
    /\ n_tracks = 0 /\ k_track = 0 /\ apc = "idle"
    /\ curveN = 0 /\ n_points = 0 /\ warned = FALSE
    /\ fitRSS = << >> /\ fitStarted = << >> /\ bicCalls = << >>
    /\ bics = << >> /\ bic_min = None /\ rel_likelihood = << >>
    /\ model_list = << >> /\ aErr = "None"

\* smartAveraging has not been called
AvgIdle ==
    /\ lens = [tracks |-> 0, MSD |-> 0, D_app |-> 0, models |-> 0]
    /\ spc = "idle" /\ track_length = 0 /\ sk = 0
    /\ counter = <<0, 0, 0>>
    /\ average_D_app = << >> /\ average_MSD = << >>
    /\ sector = << >> /\ divisors = << >> /\ sErr = "None"
    /\ sa_models = << >> /\ sa_D_app = << >> /\ sa_MSD = << >>

\* -------------------------------------------------------- calculateMSD
\* the values given to N: the default, and one and two more than the track length
NArgs(n) == {None, Some(n + 1), Some(n + 2)}

\* lines 106-119 of a call calculateMSD(N=na): default N, allocation, choice
\* of the path
CalculateMSD(na) ==
    /\ pc = "idle"
    /\ Narg' = na
    /\ \E numWorkers \in {None} \cup {Some(w) : w \in 0..MaxWorkers},
          cpu_count \in 1..MaxWorkers, cs \in 1..MaxChunk :
        LET n == IF na = None THEN Len(x) ELSE na.val
            workers == IF numWorkers = None THEN cpu_count ELSE numWorkers.val
        IN  IF CurveLen(n) < 0
            THEN \* np.zeros of a negative length
                 /\ err' = "ValueError"
                 /\ UNCHANGED <<pc, N, i, MSD, MSD_error, chunksize, chunkRes>>
            ELSE /\ err' = "None"
                 /\ N' = n
                 /\ MSD' = Zeros(CurveLen(n))
                 /\ MSD_error' = Zeros(CurveLen(n))
                 /\ IF workers > 1
                    THEN /\ pc' = "par"
                         /\ chunksize' = cs
                         /\ chunkRes' = [c \in 0..(NumChunks(n, cs) - 1) |-> None]
                         /\ i' = 0
                    ELSE /\ pc' = "seq"
                         /\ i' = 1
                         /\ UNCHANGED <<chunksize, chunkRes>>
    /\ UNCHANGED <<x, y, sdaVars, self_MSD, self_MSD_error, seqCurve, parCurve, sdVars, fitVars, avgVars>>

\* a call with the same N as the calls before
CalculateMSD_Begin == CalculateMSD(Narg)

\* an exception leaves calculateMSD: the locals are dropped, the track is as before
Abort_StoresLocals(e) ==
    /\ err' = e
    /\ pc' = "idle" /\ N' = 0 /\ i' = 0
    /\ MSD' = << >> /\ MSD_error' = << >>
    /\ chunksize' = 0 /\ chunkRes' = << >>
    /\ self_MSD' = Some(MSD) /\ self_MSD_error' = Some(MSD_error)
    /\ UNCHANGED <<x, y, sdaVars, Narg, seqCurve, parCurve, sdVars, fitVars, avgVars>>

Abort(e) ==
    /\ err' = e
    /\ pc' = "idle" /\ N' = 0 /\ i' = 0
    /\ MSD' = << >> /\ MSD_error' = << >>
    /\ chunksize' = 0 /\ chunkRes' = << >>
    /\ UNCHANGED <<x, y, sdaVars, Narg, self_MSD, self_MSD_error, seqCurve, parCurve, sdVars, fitVars, avgVars>>

\* lines 135-141: one pass of the sequential loop
SeqStep ==
    /\ pc = "seq"
    /\ i <= N - 3
    /\ LET r == SeqLag(i, x, y, N)
       IN  IF IsRaise(r) THEN Abort(r.exc)
           ELSE /\ MSD' = [MSD EXCEPT ![i] = r.val[1]]
                /\ MSD_error' = [MSD_error EXCEPT ![i] = r.val[2]]
                /\ i' = i + 1
                /\ UNCHANGED <<x, y, sdaVars, Narg, self_MSD, self_MSD_error, pc, N, chunksize,
                               chunkRes, err, seqCurve, parCurve, sdVars, fitVars, avgVars>>

\* a worker process finishes one chunk of the map
WorkerChunk(c) ==
    /\ pc = "par"
    /\ c \in DOMAIN chunkRes
    /\ chunkRes[c] = None
    /\ chunkRes' = [chunkRes EXCEPT ![c] = ChunkResult(c, x, y, N, chunksize)]
    /\ UNCHANGED <<x, y, sdaVars, Narg, self_MSD, self_MSD_error, pc, N, i, MSD, MSD_error,
                   chunksize, err, seqCurve, parCurve, sdVars, fitVars, avgVars>>

\* list(executor.map(...)) re-raises the first exception in submission order
ParRaise ==
    /\ pc = "par"
    /\ \E c \in DOMAIN chunkRes :
        /\ IsRaise(chunkRes[c])
        /\ \A d \in DOMAIN chunkRes : d < c => chunkRes[d] # None
        /\ Abort(chunkRes[c].exc)

\* lines 122-133: all results are in; they are copied in submission order
ParCollect ==
    /\ pc = "par"
    /\ \A c \in DOMAIN chunkRes : IsValue(chunkRes[c])
    /\ LET results == ChainChunks(chunkRes, 0, NumChunks(N, chunksize))
       IN  /\ MSD' = [k \in 1..Len(MSD) |-> IF k <= Len(results) THEN results[k][1] ELSE MSD[k]]
           /\ MSD_error' = [k \in 1..Len(MSD_error) |->
                               IF k <= Len(results) THEN results[k][2] ELSE MSD_error[k]]
    /\ pc' = "collected"
    /\ chunkRes' = << >> /\ chunksize' = 0
    /\ UNCHANGED <<x, y, sdaVars, Narg, self_MSD, self_MSD_error, N, i, err, seqCurve, parCurve, sdVars, fitVars, avgVars>>

\* lines 143-144
Publish ==
    /\ \/ pc = "seq" /\ i > N - 3
       \/ pc = "collected"
    /\ self_MSD' = Some(MSD)
    /\ self_MSD_error' = Some(MSD_error)
    /\ IF pc = "seq"
       THEN seqCurve' = [tag |-> "curve", MSD |-> MSD, MSD_error |-> MSD_error]
            /\ UNCHANGED parCurve
       ELSE parCurve' = [tag |-> "curve", MSD |-> MSD, MSD_error |-> MSD_error]
            /\ UNCHANGED seqCurve
    /\ pc' = "idle" /\ N' = 0 /\ i' = 0
    /\ MSD' = << >> /\ MSD_error' = << >>
    /\ UNCHANGED <<x, y, sdaVars, Narg, chunksize, chunkRes, err, sdVars, fitVars, avgVars>>

InitMSD ==
    /\ InitTrack
    /\ Narg \in NArgs(Len(x))
    /\ MsdIdle
    /\ SdIdle
    /\ FitIdle
    /\ AvgIdle
    /\ SdaIdle

NextMSD ==
    \/ CalculateMSD_Begin
    \/ SeqStep
    \/ \E c \in 0..MaxLen : WorkerChunk(c)
    \/ ParRaise
    \/ ParCollect
    \/ Publish

SpecMSD == InitMSD /\ [][NextMSD]_vars

\* the same, with N given anew in every call
InitMSDN ==
    /\ InitTrack
    /\ Narg = None
    /\ MsdIdle
    /\ SdIdle
    /\ FitIdle
    /\ AvgIdle
    /\ SdaIdle

NextMSDN ==
    \/ \E na \in NArgs(Len(x)) : CalculateMSD(na)
    \/ SeqStep
    \/ \E c \in 0..MaxLen : WorkerChunk(c)
    \/ ParRaise
    \/ ParCollect
    \/ Publish

SpecMSDN == InitMSDN /\ [][NextMSDN]_vars

\* ------------------------------------------------------------ Track.SD
\* a call of Track.SD(j) / _calculate_sd_at(j)
CallSD(j) ==
    /\ sdJ' = j
    /\ sdRet' = SD(x, y, j)
    /\ UNCHANGED <<x, y, sdaVars, msdVars, fitVars, avgVars>>

InitSD ==
    /\ InitTrack
    /\ Narg = None
    /\ MsdIdle
    /\ SdIdle
    /\ FitIdle
    /\ AvgIdle
    /\ SdaIdle

NextSD == \E j \in 1..(MaxLen + 1) : CallSD(j)

SpecSD == InitSD /\ [][NextSD]_vars

\* ------------------------------------------- the analysis entry points
\* Track.classicalMSDAnalysis, classicalMSDAnalysis and adc_analysis.  The
\* first analyses the track's own curve, the others loop over the curves of
\* their tracks.  curve_fit is scipy's: a call either raises RuntimeError
\* (maxfev evaluations without convergence), raises TypeError (fewer points
\* than parameters), or returns parameters, which enter what follows only
\* through RSS, the sum of squared residuals over the fitted prefix.

\* a call of an entry point
StartAnalysis ==
    /\ apc \in {"idle", "done", "failed"}
    /\ \E e \in EntryPoints, nt \in 0..MaxTracks :
        /\ e = "Track.classicalMSDAnalysis" => nt = 1
        /\ \E a \in FitArgPairs(e) :
            /\ fractionFitPoints' = a[1]
            /\ nFitPoints' = a[2]
        /\ entry' = e
        /\ n_tracks' = nt
        /\ k_track' = 1
        /\ apc' = IF nt = 0 THEN "done" ELSE "points"
    /\ curveN' = 0 /\ n_points' = 0 /\ warned' = FALSE
    /\ fitRSS' = << >> /\ fitStarted' = << >> /\ bicCalls' = << >>
    /\ bics' = << >> /\ bic_min' = None /\ rel_likelihood' = << >>
    /\ model_list' = << >> /\ aErr' = "None"
    /\ UNCHANGED <<x, y, sdaVars, msdVars, sdVars, avgVars>>

\* an exception leaves the entry point
AnalysisFails(e) ==
    /\ apc' = "failed"
    /\ aErr' = e

\* lines 154-165, 261-273, 335-348: N, n_points, the assertion, the warning
SelectPoints ==
    /\ apc = "points"
    /\ \E n \in 0..MaxCurve :
        LET np == IF entry = "adc_analysis" THEN NPointsADC(nFitPoints, n)
                  ELSE NPointsMSD(fractionFitPoints, nFitPoints, n)
        IN  /\ curveN' = n
            /\ n_points' = np
            /\ fitRSS' = << >> /\ bicCalls' = << >> /\ bics' = << >> /\ bic_min' = None
            /\ rel_likelihood' = << >>
            /\ IF EnoughPoints(np)
               THEN /\ warned' = TooManyPoints(np, n)
                    /\ apc' = "fit"
                    /\ UNCHANGED aErr
               ELSE /\ warned' = FALSE
                    /\ AnalysisFails("AssertionError")
    /\ UNCHANGED <<x, y, sdaVars, msdVars, sdVars, avgVars, entry, fractionFitPoints, nFitPoints,
                   n_tracks, k_track, fitStarted, model_list>>

\* lines 176-178, 283-285, 363-365: the next curve_fit call
Fit ==
    /\ apc = "fit"
    /\ Len(fitRSS) < Len(ModelsOf(entry))
    /\ LET m == ModelsOf(entry)[Len(fitRSS) + 1]
       IN  /\ fitStarted' = Append(fitStarted, <<k_track, m, n_points>>)
           /\ \/ /\ SliceLen(curveN, n_points) < NumParams(m)
                 /\ AnalysisFails("TypeError")
                 /\ UNCHANGED fitRSS
              \/ /\ SliceLen(curveN, n_points) >= NumParams(m)
                 /\ AnalysisFails("RuntimeError")
                 /\ UNCHANGED fitRSS
              \/ /\ SliceLen(curveN, n_points) >= NumParams(m)
                 /\ \E rss \in 0..MaxRSS : fitRSS' = Append(fitRSS, rss)
                 /\ UNCHANGED <<apc, aErr>>
    /\ UNCHANGED <<x, y, sdaVars, msdVars, sdVars, avgVars, entry, fractionFitPoints, nFitPoints,
                   n_tracks, k_track, curveN, n_points, warned, bicCalls, bics, bic_min,
                   rel_likelihood, model_list>>

\* lines 183-191, 290-298, 368-393: BIC of every model, the smallest, the
\* category (adc_analysis), the relative likelihoods
Compare ==
    /\ apc = "fit"
    /\ Len(fitRSS) = Len(ModelsOf(entry))
    /\ LET bs == [m \in 1..Len(fitRSS) |-> BIC(fitRSS[m], BicK(entry, ModelsOf(entry)[m]), 1)]
           mn == MinOf(bs)
       IN  /\ bicCalls' = [m \in 1..Len(fitRSS) |->
                             <<ModelsOf(entry)[m], BicK(entry, ModelsOf(entry)[m]), 1,
                               SliceLen(curveN, n_points)>>]
           /\ bics' = bs
           /\ bic_min' = Some(mn)
           /\ rel_likelihood' = [m \in 1..Len(bs) |-> RelLikelihood(bs[m], mn)]
           /\ model_list' = IF entry = "adc_analysis"
                            THEN Append(model_list, Category(bs, mn))
                            ELSE model_list
    /\ apc' = "plot"
    /\ UNCHANGED <<x, y, sdaVars, msdVars, sdVars, avgVars, entry, fractionFitPoints, nFitPoints,
                   n_tracks, k_track, curveN, n_points, warned, fitRSS, fitStarted, aErr>>

\* lines 193-204, 300-311, 395-405: the plot, which reads T[n_points]; then
\* the next curve, or the return
Plot ==
    /\ apc = "plot"
    /\ IF n_points >= curveN
       THEN /\ AnalysisFails("IndexError")
            /\ UNCHANGED k_track
       ELSE /\ UNCHANGED aErr
            /\ IF k_track < n_tracks
               THEN k_track' = k_track + 1 /\ apc' = "points"
               ELSE UNCHANGED k_track /\ apc' = "done"
    /\ UNCHANGED <<x, y, sdaVars, msdVars, sdVars, avgVars, entry, fractionFitPoints, nFitPoints,
                   n_tracks, curveN, n_points, warned, fitRSS, fitStarted, bicCalls, bics,
                   bic_min, rel_likelihood, model_list>>

InitFit ==
    /\ x = <<0>> /\ y = <<0>>
    /\ Narg = None
    /\ MsdIdle
    /\ SdIdle
    /\ FitIdle
    /\ AvgIdle
    /\ SdaIdle

NextFit ==
    \/ StartAnalysis
    \/ SelectPoints
    \/ Fit
    \/ Compare
    \/ Plot

SpecFit == InitFit /\ [][NextFit]_vars

\* ------------------------------------------------------- smartAveraging
\* The lists are arguments; an element is drawn when the code first reads it.

SAFails(e) ==
    /\ spc' = "failed"
    /\ sErr' = e

\* lines 413-433: track_length, the zero arrays, the counters, the length checks
SA_Begin ==
    /\ spc = "idle"
    /\ \E nT \in 0..MaxTracks, nM \in 0..MaxTracks, nD \in 0..MaxTracks,
          nC \in 0..MaxTracks, tl \in 2..MaxLen :
        LET ls == [tracks |-> nT, MSD |-> nM, D_app |-> nD, models |-> nC]
        IN  /\ lens' = ls
            /\ IF nT = 0
               THEN \* tracks[0]
                    /\ SAFails("IndexError")
                    /\ UNCHANGED <<track_length, average_D_app, average_MSD>>
               ELSE /\ track_length' = tl
                    /\ IF tl - 3 < 0
                       THEN \* np.zeros of a negative length
                            /\ SAFails("ValueError")
                            /\ UNCHANGED <<average_D_app, average_MSD>>
                       ELSE /\ average_D_app' = [c \in 1..3 |-> [j \in 1..(tl - 3) |-> 0]]
                            /\ average_MSD' = [c \in 1..3 |-> [j \in 1..(tl - 3) |-> 0]]
                            /\ IF LengthCheck(ls) # "None"
                               THEN SAFails(LengthCheck(ls))
                               ELSE spc' = "validate" /\ UNCHANGED sErr
    /\ UNCHANGED <<x, y, sdaVars, msdVars, sdVars, fitVars, sk, counter, sector, divisors,
                   sa_models, sa_D_app, sa_MSD>>

\* lines 435-441: one pass of the loop that checks the lengths of track k,
\* MSD[k][0] and D_app[k]
SA_Validate ==
    /\ spc = "validate"
    /\ IF sk >= lens.tracks
       THEN /\ spc' = "accumulate" /\ sk' = 0
            /\ UNCHANGED sErr
       ELSE \E lx \in 2..MaxLen, lm \in 0..(MaxLen - 3), ld \in 0..(MaxLen - 3) :
            /\ sk = 0 => lx = track_length
            /\ IF lx # track_length \/ lm # track_length - 3 \/ ld # track_length - 3
               THEN SAFails("ValueError") /\ UNCHANGED sk
               ELSE sk' = sk + 1 /\ UNCHANGED <<spc, sErr>>
    /\ UNCHANGED <<x, y, sdaVars, msdVars, sdVars, fitVars, lens, track_length, counter,
                   average_D_app, average_MSD, sector, divisors,
                   sa_models, sa_D_app, sa_MSD>>

\* lines 443-459: one pass of the loop that counts and sums by category
SA_Accumulate ==
    /\ spc = "accumulate"
    /\ IF sk >= lens.tracks
       THEN /\ spc' = "divide"
            /\ UNCHANGED <<sk, counter, average_D_app, average_MSD, sErr,
                           sa_models, sa_D_app, sa_MSD>>
       ELSE \E mk \in {"brownian", "confined", "hop", "unknown", "other"} :
            /\ sa_models' = Append(sa_models, mk)
            /\ IF \E c \in 1..3 : Categories[c] = mk
               THEN \E dk \in CurvesOf(track_length - 3), msdk \in CurvesOf(track_length - 3) :
                    LET c == CHOOSE c \in 1..3 : Categories[c] = mk
                    IN  /\ counter' = [counter EXCEPT ![c] = @ + 1]
                        /\ average_D_app' = [average_D_app EXCEPT ![c] = AddTo(@, dk)]
                        /\ average_MSD' = [average_MSD EXCEPT ![c] = AddTo(@, msdk)]
                        /\ sa_D_app' = Append(sa_D_app, Some(dk))
                        /\ sa_MSD' = Append(sa_MSD, Some(msdk))
                        /\ sk' = sk + 1
                        /\ UNCHANGED <<spc, sErr>>
               ELSE /\ sa_D_app' = Append(sa_D_app, None)
                    /\ sa_MSD' = Append(sa_MSD, None)
                    /\ IF mk = "unknown"
                       THEN /\ sk' = sk + 1
                            /\ UNCHANGED <<spc, counter, average_D_app, average_MSD, sErr>>
                       ELSE /\ SAFails("ValueError")
                            /\ UNCHANGED <<sk, counter, average_D_app, average_MSD>>
    /\ UNCHANGED <<x, y, sdaVars, msdVars, sdVars, fitVars, lens, track_length, sector, divisors>>

\* lines 461-472: the averages and the population fractions
SA_Divide ==
    /\ spc = "divide"
    /\ average_D_app' = [c \in 1..3 |-> DivideBy(average_D_app[c], counter[c])]
    /\ average_MSD' = [c \in 1..3 |-> DivideBy(average_MSD[c], counter[c])]
    /\ LET counter_sum == counter[1] + counter[2] + counter[3]
       IN  IF counter_sum = 0
           THEN \* int / int
                /\ SAFails("ZeroDivisionError")
                /\ divisors' = <<counter[1], counter[2], counter[3],
                                 counter[1], counter[2], counter[3], counter_sum>>
                /\ UNCHANGED sector
           ELSE /\ sector' = [c \in 1..3 |-> Rat(counter[c], counter_sum)]
                /\ divisors' = <<counter[1], counter[2], counter[3],
                                 counter[1], counter[2], counter[3],
                                 counter_sum, counter_sum, counter_sum>>
                /\ spc' = "returned"
                /\ UNCHANGED sErr
    /\ UNCHANGED <<x, y, sdaVars, msdVars, sdVars, fitVars, lens, track_length, sk, counter,
                   sa_models, sa_D_app, sa_MSD>>

\* the call is over; the next one starts afresh
SA_Return ==
    /\ spc \in {"returned", "failed"}
    /\ lens' = [tracks |-> 0, MSD |-> 0, D_app |-> 0, models |-> 0]
    /\ spc' = "idle" /\ track_length' = 0 /\ sk' = 0
    /\ counter' = <<0, 0, 0>>
    /\ average_D_app' = << >> /\ average_MSD' = << >>
    /\ sector' = << >> /\ divisors' = << >> /\ sErr' = "None"
    /\ sa_models' = << >> /\ sa_D_app' = << >> /\ sa_MSD' = << >>
    /\ UNCHANGED <<x, y, sdaVars, msdVars, sdVars, fitVars>>

InitAvg ==
    /\ x = <<0>> /\ y = <<0>>
    /\ Narg = None
    /\ MsdIdle
    /\ SdIdle
    /\ FitIdle
    /\ AvgIdle
    /\ SdaIdle

NextAvg ==
    \/ SA_Begin
    \/ SA_Validate
    \/ SA_Accumulate
    \/ SA_Divide
    \/ SA_Return

SpecAvg == InitAvg /\ [][NextAvg]_vars

\* --------------------------------------------------- the SD analysis calls
\* get_sd_analysis_results()
GetSdAnalysisResults ==
    /\ sdaPc = "idle"
    /\ sdaCall' = "get"
    /\ sdaRet' = Some(sd_analysis_results)
    /\ UNCHANGED <<x, y, msdVars, sdVars, fitVars, avgVars, sd_analysis_results,
                   sdaPc, J, dapp_list, lastAnalysis>>

\* delete_sd_analysis_results()
DeleteSdAnalysisResults ==
    /\ sdaPc = "idle"
    /\ sd_analysis_results' = ResetRecord
    /\ sdaCall' = "delete"
    /\ sdaRet' = None
    /\ lastAnalysis' = None
    /\ UNCHANGED <<x, y, msdVars, sdVars, fitVars, avgVars, sdaPc, J, dapp_list>>

\* an exception leaves sd_analysis
SdAnalysisFails(e) ==
    /\ sdaPc' = "idle"
    /\ sdaCall' = "sd_analysis"
    /\ sdaRet' = Raise(e)
    /\ J' = << >> /\ dapp_list' = << >>
    /\ UNCHANGED <<sd_analysis_results, lastAnalysis>>

\* lines 45-54: dt = self._t[1] - self._t[0] (t is as long as x), the lists
SdAnalysis_Begin ==
    /\ sdaPc = "idle"
    /\ \E Jarg \in JLists :
        IF Len(x) < 2
        THEN SdAnalysisFails("IndexError")
        ELSE /\ sdaPc' = "loop"
             /\ J' = Jarg
             /\ dapp_list' = << >>
             /\ sdaCall' = "sd_analysis"
             /\ sdaRet' = None
             /\ UNCHANGED <<sd_analysis_results, lastAnalysis>>
    /\ UNCHANGED <<x, y, msdVars, sdVars, fitVars, avgVars>>

\* lines 55-91: one pass of the loop over J
SdAnalysis_Lag ==
    /\ sdaPc = "loop"
    /\ Len(dapp_list) < Len(J)
    /\ LET j == J[Len(dapp_list) + 1]
           sd == SD(x, y, j)
       IN  IF IsRaise(sd) THEN SdAnalysisFails(sd.exc)
           ELSE IF Len(sd.val) = 0
           THEN \* x_fit[-1] of an empty array
                SdAnalysisFails("IndexError")
           ELSE IF sd.val[Len(sd.val)] = sd.val[1]
           THEN \* num_bins = 0: np.histogram(..., bins=0)
                SdAnalysisFails("ValueError")
           ELSE \/ SdAnalysisFails("RuntimeError")
                \/ /\ \E dapp \in DappValues : dapp_list' = Append(dapp_list, dapp)
                   /\ UNCHANGED <<sd_analysis_results, sdaPc, J, sdaCall, sdaRet, lastAnalysis>>
    /\ UNCHANGED <<x, y, msdVars, sdVars, fitVars, avgVars>>

\* lines 93-102: _categorize, then the five entries of the dict, the return
SdAnalysis_Categorize ==
    /\ sdaPc = "loop"
    /\ Len(dapp_list) = Len(J)
    /\ \/ SdAnalysisFails("RuntimeError")
       \/ \E r \in CategorizeResults :
            LET model == r[1]
                results == r[2]
                d1 == DictSet(sd_analysis_results, "analyzed", TRUE)
                d2 == DictSet(d1, "Dapp", Some(dapp_list))
                d3 == DictSet(d2, "J", Some(J))
                d4 == DictSet(d3, "model", model)
                d5 == DictSet(d4, "results", Some(results))
            IN  /\ sd_analysis_results' = d5
                /\ sdaRet' = Some(d5)
                /\ lastAnalysis' = Some([Dapp |-> dapp_list, J |-> J, model |-> model,
                                         results |-> results])
                /\ sdaPc' = "idle"
                /\ sdaCall' = "sd_analysis"
                /\ J' = << >> /\ dapp_list' = << >>
    /\ UNCHANGED <<x, y, msdVars, sdVars, fitVars, avgVars>>

\* plot_sd_analysis_results(): lines 113-115, then the plot, which ends
\* normally or with an exception
PlotSdAnalysisResults ==
    /\ sdaPc = "idle"
    /\ sdaCall' = "plot"
    /\ IF sd_analysis_results["analyzed"] = FALSE
       THEN sdaRet' = Raise("ValueError")
       ELSE sdaRet' \in {None, Raise("ValueError"), Raise("NameError"), Raise("IndexError")}
    /\ UNCHANGED <<x, y, msdVars, sdVars, fitVars, avgVars, sd_analysis_results,
                   sdaPc, J, dapp_list, lastAnalysis>>

InitSDA ==
    /\ InitTrack
    /\ Narg = None
    /\ MsdIdle
    /\ SdIdle
    /\ FitIdle
    /\ AvgIdle
    /\ SdaIdle

NextSDA ==
    \/ GetSdAnalysisResults
    \/ DeleteSdAnalysisResults
    \/ SdAnalysis_Begin
    \/ SdAnalysis_Lag
    \/ SdAnalysis_Categorize
    \/ PlotSdAnalysisResults

SpecSDA == InitSDA /\ [][NextSDA]_vars

\* ------------------------------------------------------------- claims

\* C1: for every track of length N >= 4 and the default max lag, calculateMSD
\* does not fail and the MSD and MSD_error arrays it stores have length exactly
\* N-3, in the sequential and in the parallel path.
CurveHasLen(c, n) == Len(c.MSD) = n /\ Len(c.MSD_error) = n

C1_MSDLength ==
    (Narg = None /\ Len(x) >= 4) =>
        /\ err = "None"
        /\ self_MSD # None => Len(self_MSD.val) = Len(x) - 3
        /\ self_MSD_error # None => Len(self_MSD_error.val) = Len(x) - 3
        /\ seqCurve # None => CurveHasLen(seqCurve, Len(x) - 3)
        /\ parCurve # None => CurveHasLen(parCurve, Len(x) - 3)

C1_Witness ==
    /\ Narg = None /\ Len(x) >= 5 /\ err = "None"
    /\ seqCurve # None /\ parCurve # None
    /\ self_MSD # None /\ Len(self_MSD.val) = Len(x) - 3

\* C2: for the same track and the same N the sequential and the parallel path
\* publish identical MSD and MSD_error arrays, and the parallel path's value
\* for lag i is at index i-1 whatever the order in which the chunks finished.
LagsInPlace(c) ==
    \A lag \in 1..Len(c.MSD) :
        <<c.MSD[lag], c.MSD_error[lag]>> = SeqLag(lag, x, y, Len(c.MSD) + 3).val

C2_SeqParIdentical ==
    /\ (seqCurve # None /\ parCurve # None) => seqCurve = parCurve
    /\ parCurve # None => LagsInPlace(parCurve)
    /\ seqCurve # None => LagsInPlace(seqCurve)

C2_Witness ==
    /\ seqCurve # None /\ parCurve # None
    /\ Len(parCurve.MSD) >= 2
    /\ parCurve.MSD[1][1] * parCurve.MSD[2][2] # parCurve.MSD[2][1] * parCurve.MSD[1][2]

\* C3: for every track of length N and every lag j with 1 <= j < N, SD(j)
\* returns a sequence sorted ascending of length exactly N-j-1.
C3_SDSortedLength ==
    (sdJ >= 1 /\ sdJ < Len(x)) =>
        /\ IsValue(sdRet)
        /\ IsSortedAsc(sdRet.val)
        /\ Len(sdRet.val) = Len(x) - sdJ - 1

C3_Witness ==
    /\ sdJ >= 1 /\ sdJ < Len(x)
    /\ IsValue(sdRet) /\ Len(sdRet.val) >= 3
    /\ sdRet.val # SD_NoSort(x, y, sdJ).val

\* helpers of the claims about the model comparison
Compared == bics # << >> /\ apc # "points"
AllFinite == \A m \in 1..Len(bics) : bics[m][1] > 0
IsMinimal(m) == \A m2 \in 1..Len(bics) : ~RatLess(bics[m2], bics[m])
IsOne(r) == r.kind = "finite" /\ r.sq[1] = r.sq[2]
InUnitInterval(r) == r.kind = "finite" /\ r.sq[1] > 0 /\ r.sq[1] <= r.sq[2]

\* C4: in every model comparison with finite BIC values, each model whose BIC
\* equals the minimum BIC has relative likelihood exactly 1.0.
C4_MinBicRelOne ==
    (Compared /\ AllFinite) =>
        \A m \in 1..Len(bics) : IsMinimal(m) => IsOne(rel_likelihood[m])

C4_Witness ==
    /\ Compared /\ AllFinite
    /\ entry = "adc_analysis"
    /\ IsMinimal(2) /\ ~IsMinimal(1) /\ ~IsMinimal(3)
    /\ IsOne(rel_likelihood[2])

\* C5 (as claimed): in every model comparison (here: with finite BIC values)
\* the relative likelihood of each model that is not the minimum-BIC model
\* lies in (0, 1].
C5_OthersInUnitInterval ==
    (Compared /\ AllFinite) =>
        \A m \in 1..Len(bics) : ~IsMinimal(m) => InUnitInterval(rel_likelihood[m])

\* C6: adc_analysis appends for each track the category of the model with the
\* minimum BIC, and of several models with the minimum BIC the first in the
\* order brownian, confined, hop.
FirstMinimal == CHOOSE m \in 1..Len(bics) : IsMinimal(m) /\ \A m2 \in 1..(m - 1) : ~IsMinimal(m2)

CurveSelected == n_tracks >= 1 /\ apc \notin {"idle", "points"}

C7_NoFitBelowTwoPoints ==
    /\ \A f \in 1..Len(fitStarted) : fitStarted[f][3] >= 2
    /\ (CurveSelected /\ n_points < 2) =>
          /\ apc = "failed" /\ aErr = "AssertionError"
          /\ \A f \in 1..Len(fitStarted) : fitStarted[f][1] # k_track

C7_Witness ==
    /\ CurveSelected /\ n_points = 1 /\ curveN >= 4
    /\ apc = "failed" /\ aErr = "AssertionError"

\* C8 (as claimed): a fit that exhausts its evaluation budget never aborts the
\* analysis: the call does not end with the RuntimeError of curve_fit.
C8_DivergenceNotFatal == ~(apc = "failed" /\ aErr = "RuntimeError")

\* C9 (as claimed): smartAveraging never divides by zero: a category without
\* member tracks is skipped, and the call does not end in a division by zero.
C9_NoDivisionByZero ==
    /\ sErr # "ZeroDivisionError"
    /\ divisors # << >> =>
          \A c \in 1..3 : \A j \in 1..Len(average_D_app[c]) :
             average_D_app[c][j].kind = "finite" /\ average_MSD[c][j].kind = "finite"

\* C10: whenever the track list, the MSD list, the D_app list and the category
\* list do not all have the same length (an empty track list included)
\* smartAveraging fails with an error, before anything is counted or summed.
ListsDiffer ==
    ~(lens.tracks = lens.MSD /\ lens.tracks = lens.D_app /\ lens.tracks = lens.models)

AllZero(avgs) == \A c \in 1..Len(avgs) : \A j \in 1..Len(avgs[c]) : avgs[c][j] = 0

C10_MismatchFails ==
    (spc # "idle" /\ ListsDiffer) =>
        /\ spc = "failed"
        /\ sErr \in {"ValueError", "IndexError"}
        /\ counter = <<0, 0, 0>>
        /\ AllZero(average_D_app) /\ AllZero(average_MSD)
        /\ divisors = << >>

C10_Witness ==
    /\ spc = "failed" /\ sErr = "ValueError"
    /\ track_length >= 4
    /\ lens.tracks = lens.MSD /\ lens.tracks = lens.models
    /\ lens.D_app > lens.tracks

\* C11: when every track of the population has the same category c (brownian,
\* confined or hop) and the same MSD and D_app curves, smartAveraging returns
\* for c exactly that curve and the population fractions 1 for c and 0 for the
\* other categories; and in every call that returns, each fraction is the
\* number of tracks of the category divided by the number of tracks whose
\* category is not "unknown".
CountOf(ms, c) == Cardinality({k \in 1..Len(ms) : ms[k] = c})
CountKnown(ms) == Cardinality({k \in 1..Len(ms) : ms[k] # "unknown"})

SingleCategory(c) ==
    \A k \in 1..Len(sa_models) :
        /\ sa_models[k] = Categories[c]
        /\ sa_D_app[k] = sa_D_app[1]
        /\ sa_MSD[k] = sa_MSD[1]

IsCurve(avg, curve) ==
    \A j \in 1..Len(curve) :
        avg[j].kind = "finite" /\ RatEq(avg[j].q, Rat(curve[j], 1))

C12_InvalidLagFails == (sdJ >= Len(x)) => IsRaise(sdRet)

\* C13 (as claimed): when the requested fraction of fit points is above 1 the
\* number of fit points does not exceed the number N of curve points, the
\* warning is given, every index the analysis uses (the slice ends and the
\* range-end marker T[n_points]) is within 0..N-1, and the analysis does not
\* end with an index error.
RequestedFraction ==
    IF entry = "adc_analysis"
    THEN (IF nFitPoints = None THEN <<1, 4>> ELSE nFitPoints.val)
    ELSE (IF nFitPoints = None THEN fractionFitPoints ELSE <<0, 1>>)

FractionAboveOne == RequestedFraction[1] > RequestedFraction[2]

C13_FitPointsWithinCurve ==
    (CurveSelected /\ FractionAboveOne /\ EnoughPoints(n_points)) =>
        /\ warned
        /\ n_points <= curveN
        /\ ~(apc = "failed" /\ aErr = "IndexError")

\* C14 (as claimed): in every entry point n_points is floor(fraction * N) when
\* no point count is given, and is the given point count itself, whatever N
\* and the fraction are, when one is given.
Floor(v) == v[1] \div v[2]
IsCount(v) == v[2] = 1

IsReset(d) ==
    /\ d["analyzed"] = FALSE /\ d["model"] = "unknown"
    /\ d["Dapp"] = None /\ d["results"] = None

IsAnalysisOf(d, a) ==
    /\ d["analyzed"] = TRUE /\ d["model"] = a.model
    /\ d["Dapp"] = Some(a.Dapp) /\ d["J"] = Some(a.J)
    /\ d["results"] = Some(a.results)

AllLagsDone ==
    \/ pc = "seq" /\ i > N - 3
    \/ pc = "collected" /\ chunkRes = << >>

TrackCurveChanges == self_MSD' # self_MSD \/ self_MSD_error' # self_MSD_error

OwnSlotOnly(a, b, slot) ==
    Len(a) = Len(b) /\ \A k \in 1..Len(a) : k # slot => a[k] = b[k]

C16_PublishStep ==
    /\ TrackCurveChanges =>
          /\ AllLagsDone
          /\ Len(MSD) = CurveLen(N) /\ Len(MSD_error) = CurveLen(N)
          /\ self_MSD' = Some(MSD) /\ self_MSD_error' = Some(MSD_error)
    /\ (pc = "seq" /\ pc' = "seq") =>
          OwnSlotOnly(MSD', MSD, i) /\ OwnSlotOnly(MSD_error', MSD_error, i)
    /\ (pc = "par" /\ pc' = "par") => UNCHANGED <<MSD, MSD_error>>
    /\ (pc' = "idle" /\ err' # "None") => UNCHANGED <<self_MSD, self_MSD_error>>

C16_PublishAfterAllLags == [][C16_PublishStep]_vars

C16_Witness ==
    /\ pc = "idle" /\ err = "IndexError"
    /\ self_MSD # None /\ Len(self_MSD.val) >= 2
    /\ seqCurve # None /\ parCurve # None

\* C17 (as claimed): for a track of length N and the default max lag, the MSD
\* entry of every lag i in 1..N-3 is the mean, and its error the standard
\* error, of the squared displacements SD(i) returns, so the number of
\* samples averaged at lag i is the length of SD(i).
C17_MSDOverSDPairs ==
    (Narg = None /\ self_MSD # None) =>
        \A lag \in 1..Len(self_MSD.val) :
            LET sd == SD(x, y, lag).val
            IN  /\ self_MSD.val[lag][2] = Len(sd)
                /\ self_MSD.val[lag] = Mean(sd)
                /\ self_MSD_error.val[lag] = StdErr(sd)

\* C18 (as claimed): every BIC call of the analyses is made with k equal to
\* the number of free parameters of the model it scores and with n = 1, on
\* residuals over exactly the prefix of n_points points the model was fitted
\* to.
C18_BicArguments ==
    apc # "points" => \A c \in 1..Len(bicCalls) :
        /\ bicCalls[c][2] = NumParams(bicCalls[c][1])
        /\ bicCalls[c][3] = 1
        /\ bicCalls[c][4] = SliceLen(curveN, n_points)
        /\ \E f \in 1..Len(fitStarted) :
              fitStarted[f] = <<k_track, bicCalls[c][1], n_points>>

====
